---- MODULE Spec2Model ----
(***************************************************************************)
(* Model of ecdsa/ecdh.py: the ECDH class (the "Agreement Coordinator").   *)
(* One coordinator object is a record [curve, private_key, public_key];    *)
(* every method of the class is an operator from the object (and the       *)
(* arguments) to the new object, the raised error ("ok" when none) and the *)
(* returned value; every action applies one method to one coordinator.     *)
(* The point, key and util modules the class imports are modelled from     *)
(* their contract on small Weierstrass curves over prime fields.           *)
(***************************************************************************)
EXTENDS Integers, Sequences, FiniteSets, TLC

VARIABLES ecdh, ret, late_set_curve

vars == <<ecdh, ret, late_set_curve>>

(* Bounds of the model. *)
MaxScalar == 3

(* Python's None. *)
None == [none |-> TRUE]

(***************************************************************************)
(* ellipticcurve: points of y^2 = x^3 + a*x + b over GF(p).                *)
(***************************************************************************)
INFINITY == <<>>

(* inverse_mod, by the extended Euclidean algorithm: EGcd(a, b) is
   <<g, x, y>> with a*x + b*y = g. *)
RECURSIVE EGcd(_, _)
EGcd(a, b) ==
    IF a = 0 THEN <<b, 0, 1>>
    ELSE LET r == EGcd(b % a, a)
         IN  <<r[1], r[3] - (b \div a) * r[2], r[2]>>

InvMod(v, p) == EGcd(v % p, p)[2] % p

PointAdd(P, Q, c) ==
    IF P = INFINITY THEN Q
    ELSE IF Q = INFINITY THEN P
    ELSE IF P[1] = Q[1] /\ (P[2] + Q[2]) % c.p = 0 THEN INFINITY
    ELSE LET l == IF P[1] = Q[1]
                  THEN ((3 * P[1] * P[1] + c.a) * InvMod(2 * P[2], c.p)) % c.p
                  ELSE ((Q[2] - P[2]) * InvMod(Q[1] - P[1], c.p)) % c.p
             x == (l * l - P[1] - Q[1]) % c.p
         IN  <<x, (l * (P[1] - x) - P[2]) % c.p>>

RECURSIVE PointMulRaw(_, _, _)
PointMulRaw(P, e, c) ==
    IF e = 0 \/ P = INFINITY THEN INFINITY
    ELSE LET h == PointMulRaw(P, e \div 2, c)
             d == PointAdd(h, h, c)
         IN  IF e % 2 = 1 THEN PointAdd(d, P, c) ELSE d

(* Point.__mul__: the scalar is reduced modulo the order of the point. *)
PointMul(P, e, c) == PointMulRaw(P, e % c.order, c)

OnCurve(P, c) ==
    /\ Len(P) = 2
    /\ P[1] \in 0..(c.p - 1)
    /\ P[2] \in 0..(c.p - 1)
    /\ (P[2] * P[2]) % c.p = (P[1] * P[1] * P[1] + c.a * P[1] + c.b) % c.p

(***************************************************************************)
(* curves: two curves of prime order (cofactor 1).  The order of the first *)
(* needs one byte, the order of the second needs two, and the second has   *)
(* points whose x coordinate needs one byte and points whose x coordinate  *)
(* needs two.                                                              *)
(***************************************************************************)
Curve17 == [name |-> "Curve17", p |-> 17, a |-> 2, b |-> 2,
            generator |-> <<5, 1>>, order |-> 19, oid |-> 1]

Curve283 == [name |-> "Curve283", p |-> 283, a |-> 2, b |-> 7,
             generator |-> <<268, 156>>, order |-> 281, oid |-> 2]

Curves == {Curve17, Curve283}

(***************************************************************************)
(* util: fixed-width big-endian encoding of integers.                      *)
(***************************************************************************)
RECURSIVE HexLen(_)
HexLen(n) == IF n < 16 THEN 1 ELSE 1 + HexLen(n \div 16)

(* orderlen: (1 + len("%x" % order)) // 2 *)
orderlen(order) == (1 + HexLen(order)) \div 2

RECURSIVE Pow256(_)
Pow256(l) == IF l = 0 THEN 1 ELSE 256 * Pow256(l - 1)

(* The l big-endian bytes of num, for num < 256^l. *)
ToBytes(num, l) == [i \in 1..l |-> (num \div Pow256(l - i)) % 256]

(* number_to_string: "%0<2l>x" % num, unhexlified; the result is asserted
   to be l bytes long. *)
number_to_string(num, order) ==
    LET l == orderlen(order)
    IN  IF num < Pow256(l)
        THEN [err |-> "ok", val |-> ToBytes(num, l)]
        ELSE [err |-> "AssertionError", val |-> <<>>]

RECURSIVE string_to_number(_)
string_to_number(string) ==
    IF string = <<>> THEN 0
    ELSE 256 * string_to_number(SubSeq(string, 1, Len(string) - 1))
         + string[Len(string)]

(***************************************************************************)
(* keys: SigningKey and VerifyingKey objects and their codecs.             *)
(***************************************************************************)
SigningKey(curve, secexp) ==
    [curve |-> curve, privkey |-> [secret_multiplier |-> secexp]]

VerifyingKey(curve, point) ==
    [curve |-> curve, pubkey |-> [point |-> point]]

(* SigningKey.get_verifying_key: generator * secret_multiplier. *)
get_verifying_key(sk) ==
    VerifyingKey(sk.curve,
                 PointMul(sk.curve.generator,
                          sk.privkey.secret_multiplier, sk.curve))

(* SigningKey.from_string: the string has the length of the order and
   decodes to a secret exponent in 1 .. order-1; reading the length of the
   order of a curve that is None is an AttributeError. *)
SigningKey_from_string(string, curve) ==
    LET secexp == string_to_number(string)
    IN  IF curve = None
        THEN [err |-> "AttributeError", val |-> None]
        ELSE IF /\ Len(string) = orderlen(curve.order)
           /\ 1 <= secexp
           /\ secexp < curve.order
        THEN [err |-> "ok", val |-> SigningKey(curve, secexp)]
        ELSE [err |-> "MalformedPointError", val |-> None]

(* SigningKey.to_string *)
SigningKey_to_string(sk) ==
    ToBytes(sk.privkey.secret_multiplier, orderlen(sk.curve.order))

(* VerifyingKey.from_string: x and y, each of the length of the order,
   naming a point of the curve; reading the length of the order of a curve
   that is None is an AttributeError. *)
VerifyingKey_from_string(string, curve) ==
    LET l == orderlen(curve.order)
        point == <<string_to_number(SubSeq(string, 1, l)),
                   string_to_number(SubSeq(string, l + 1, 2 * l))>>
    IN  IF curve = None
        THEN [err |-> "AttributeError", val |-> None]
        ELSE IF Len(string) = 2 * l /\ OnCurve(point, curve)
        THEN [err |-> "ok", val |-> VerifyingKey(curve, point)]
        ELSE [err |-> "MalformedPointError", val |-> None]

(* VerifyingKey.to_string *)
VerifyingKey_to_string(vk) ==
    LET l == orderlen(vk.curve.order)
    IN  ToBytes(vk.pubkey.point[1], l) \o ToBytes(vk.pubkey.point[2], l)

(* DER: a SEQUENCE tag, then for a private key (RFC 5915) the version 1,
   the curve's object identifier and the octets of the secret; for a public
   key (RFC 5912) the ecPublicKey identifier, the curve's object identifier,
   and the bit string 00 04 x y. *)
TagSequence == 48
IdEcPublicKey == 201

find_curve(oid) ==
    IF \E c \in Curves : c.oid = oid
    THEN CHOOSE c \in Curves : c.oid = oid
    ELSE None

SigningKey_to_der(sk) ==
    <<TagSequence, 1, sk.curve.oid>> \o SigningKey_to_string(sk)

SigningKey_from_der(string) ==
    IF Len(string) < 3 \/ string[1] # TagSequence \/ string[2] # 1
    THEN [err |-> "UnexpectedDER", val |-> None]
    ELSE IF find_curve(string[3]) = None
    THEN [err |-> "UnknownCurveError", val |-> None]
    ELSE SigningKey_from_string(SubSeq(string, 4, Len(string)),
                                find_curve(string[3]))

VerifyingKey_to_der(vk) ==
    <<TagSequence, IdEcPublicKey, vk.curve.oid, 0, 4>>
        \o VerifyingKey_to_string(vk)

VerifyingKey_from_der(string) ==
    IF \/ Len(string) < 5
       \/ string[1] # TagSequence
       \/ string[2] # IdEcPublicKey
       \/ string[4] # 0
       \/ string[5] # 4
    THEN [err |-> "UnexpectedDER", val |-> None]
    ELSE IF find_curve(string[3]) = None
    THEN [err |-> "UnknownCurveError", val |-> None]
    ELSE VerifyingKey_from_string(SubSeq(string, 6, Len(string)),
                                  find_curve(string[3]))

(* PEM: the DER bytes between a BEGIN line and an END line naming the kind
   of key; line numbers stand for the lines of text. *)
PemPrivate == 301
PemPublic == 302

topem(der, name) == <<name>> \o der \o <<name>>

unpem(pem) == SubSeq(pem, 2, Len(pem) - 1)

SigningKey_to_pem(sk) == topem(SigningKey_to_der(sk), PemPrivate)

SigningKey_from_pem(string) ==
    IF Len(string) < 2 \/ string[1] # PemPrivate
    THEN [err |-> "UnexpectedDER", val |-> None]
    ELSE SigningKey_from_der(unpem(string))

VerifyingKey_to_pem(vk) == topem(VerifyingKey_to_der(vk), PemPublic)

VerifyingKey_from_pem(string) ==
    IF Len(string) < 2 \/ string[1] # PemPublic
    THEN [err |-> "UnexpectedDER", val |-> None]
    ELSE VerifyingKey_from_der(unpem(string))

(***************************************************************************)
(* ecdh.ECDH.  self is [curve, private_key, public_key]; a method returns  *)
(* the object after the call, the error raised ("ok" when none) and the    *)
(* value returned.                                                         *)
(***************************************************************************)
Integer(n) == [int |-> n]
ByteString(string) == [bytes |-> string]

Result(self, err, val) == [self |-> self, err |-> err, val |-> val]

(* Variants of get_shared_secret with one step of it altered: multiplying
   the coordinator's own public point, comparing only the two keys' curves,
   comparing curves before looking for the keys, and returning the
   x coordinate without comparing the product with INFINITY. *)
get_shared_secret_own_point(self, remote_public_key) ==
    IF self.private_key = None
    THEN Result(self, "NoKeyError", None)
    ELSE IF self.public_key = None
    THEN Result(self, "NoKeyError", None)
    ELSE IF ~(/\ self.private_key.curve = self.curve
              /\ self.curve = remote_public_key.curve)
    THEN Result(self, "InvalidCurveError", None)
    ELSE LET result == PointMul(
                           get_verifying_key(self.private_key).pubkey.point,
                           self.private_key.privkey.secret_multiplier,
                           remote_public_key.curve)
         IN  IF result = INFINITY
             THEN Result(self, "InvalidSharedSecretError", None)
             ELSE Result(self, "ok", Integer(result[1]))

get_shared_secret_keys_only(self, remote_public_key) ==
    IF self.private_key = None
    THEN Result(self, "NoKeyError", None)
    ELSE IF self.public_key = None
    THEN Result(self, "NoKeyError", None)
    ELSE IF self.private_key.curve # remote_public_key.curve
    THEN Result(self, "InvalidCurveError", None)
    ELSE LET result == PointMul(remote_public_key.pubkey.point,
                                self.private_key.privkey.secret_multiplier,
                                remote_public_key.curve)
         IN  IF result = INFINITY
             THEN Result(self, "InvalidSharedSecretError", None)
             ELSE Result(self, "ok", Integer(result[1]))

get_shared_secret_curve_first(self, remote_public_key) ==
    IF \/ self.private_key # None /\ self.private_key.curve # self.curve
       \/ remote_public_key # None /\ remote_public_key.curve # self.curve
    THEN Result(self, "InvalidCurveError", None)
    ELSE IF self.private_key = None
    THEN Result(self, "NoKeyError", None)
    ELSE IF self.public_key = None
    THEN Result(self, "NoKeyError", None)
    ELSE LET result == PointMul(remote_public_key.pubkey.point,
                                self.private_key.privkey.secret_multiplier,
                                remote_public_key.curve)
         IN  IF result = INFINITY
             THEN Result(self, "InvalidSharedSecretError", None)
             ELSE Result(self, "ok", Integer(result[1]))

get_shared_secret_no_infinity_check(self, remote_public_key) ==
    IF self.private_key = None
    THEN Result(self, "NoKeyError", None)
    ELSE IF self.public_key = None
    THEN Result(self, "NoKeyError", None)
    ELSE IF ~(/\ self.private_key.curve = self.curve
              /\ self.curve = remote_public_key.curve)
    THEN Result(self, "InvalidCurveError", None)
    ELSE LET result == PointMul(remote_public_key.pubkey.point,
                                self.private_key.privkey.secret_multiplier,
                                remote_public_key.curve)
         IN  IF result = INFINITY
             THEN Result(self, "ok", None)
             ELSE Result(self, "ok", Integer(result[1]))

get_shared_secret(self, remote_public_key) ==
    IF self.private_key = None
    THEN Result(self, "NoKeyError", None)
    ELSE IF self.public_key = None
    THEN Result(self, "NoKeyError", None)
    ELSE IF ~(/\ self.private_key.curve = self.curve
              /\ self.curve = remote_public_key.curve)
    THEN Result(self, "InvalidCurveError", None)
    ELSE LET result == PointMul(remote_public_key.pubkey.point,
                                self.private_key.privkey.secret_multiplier,
                                remote_public_key.curve)
         IN  IF result = INFINITY
             THEN Result(self, "InvalidSharedSecretError", None)
             ELSE Result(self, "ok", Integer(result[1]))

(* Variant of set_curve that refuses a curve other than a loaded key's. *)
set_curve_validating(self, key_curve) ==
    IF \/ self.private_key # None /\ self.private_key.curve # key_curve
       \/ self.public_key # None /\ self.public_key.curve # key_curve
    THEN Result(self, "InvalidCurveError", None)
    ELSE Result([self EXCEPT !.curve = key_curve], "ok", None)

set_curve(self, key_curve) ==
    Result([self EXCEPT !.curve = key_curve], "ok", None)

(* Variant of load_private_key that stores the key without comparing its
   curve with the coordinator's. *)
load_private_key_unchecked(self, private_key) ==
    LET adopted == IF self.curve = None
                   THEN [self EXCEPT !.curve = private_key.curve]
                   ELSE self
    IN  Result([adopted EXCEPT !.private_key = private_key], "ok",
               get_verifying_key(private_key))

(* Variant of load_private_key that stores the key before comparing the
   curves. *)
load_private_key_store_first(self, private_key) ==
    LET adopted == IF self.curve = None
                   THEN [self EXCEPT !.curve = private_key.curve]
                   ELSE self
        stored == [adopted EXCEPT !.private_key = private_key]
    IN  IF stored.curve # private_key.curve
        THEN Result(stored, "InvalidCurveError", None)
        ELSE Result(stored, "ok", get_verifying_key(private_key))

(* Variant of load_private_key that keeps a private key already stored. *)
load_private_key_keep_first(self, private_key) ==
    LET adopted == IF self.curve = None
                   THEN [self EXCEPT !.curve = private_key.curve]
                   ELSE self
    IN  IF adopted.curve # private_key.curve
        THEN Result(adopted, "InvalidCurveError", None)
        ELSE IF adopted.private_key # None
        THEN Result(adopted, "ok", get_verifying_key(adopted.private_key))
        ELSE Result([adopted EXCEPT !.private_key = private_key], "ok",
                    get_verifying_key(private_key))

(* Variant of load_private_key that takes the key's curve even when the
   coordinator has one. *)
load_private_key_overwrite(self, private_key) ==
    LET adopted == [self EXCEPT !.curve = private_key.curve]
    IN  IF adopted.curve # private_key.curve
        THEN Result(adopted, "InvalidCurveError", None)
        ELSE Result([adopted EXCEPT !.private_key = private_key], "ok",
                    get_verifying_key(private_key))

load_private_key(self, private_key) ==
    LET adopted == IF self.curve = None
                   THEN [self EXCEPT !.curve = private_key.curve]
                   ELSE self
    IN  IF adopted.curve # private_key.curve
        THEN Result(adopted, "InvalidCurveError", None)
        ELSE Result([adopted EXCEPT !.private_key = private_key], "ok",
                    get_verifying_key(private_key))

(* secexp is the exponent SigningKey.generate draws. *)
generate_private_key(self, secexp) ==
    IF self.curve = None
    THEN Result(self, "NoCurveError", None)
    ELSE load_private_key(self, SigningKey(self.curve, secexp))

(* Variant of load_private_key_bytes that decodes before looking at the
   curve. *)
load_private_key_bytes_decode_first(self, private_key) ==
    LET key == SigningKey_from_string(private_key, self.curve)
    IN  IF key.err # "ok"
        THEN Result(self, key.err, None)
        ELSE load_private_key(self, key.val)

load_private_key_bytes(self, private_key) ==
    IF self.curve = None
    THEN Result(self, "NoCurveError", None)
    ELSE LET key == SigningKey_from_string(private_key, self.curve)
         IN  IF key.err # "ok"
             THEN Result(self, key.err, None)
             ELSE load_private_key(self, key.val)

(* Variant of load_private_key_der that stores the decoded key itself
   instead of handing it to load_private_key. *)
load_private_key_der_direct(self, private_key_der) ==
    LET key == SigningKey_from_der(private_key_der)
    IN  IF key.err # "ok"
        THEN Result(self, key.err, None)
        ELSE Result([self EXCEPT !.private_key = key.val], "ok",
                    get_verifying_key(key.val))

load_private_key_der(self, private_key_der) ==
    LET key == SigningKey_from_der(private_key_der)
    IN  IF key.err # "ok"
        THEN Result(self, key.err, None)
        ELSE load_private_key(self, key.val)

load_private_key_pem(self, private_key_pem) ==
    LET key == SigningKey_from_pem(private_key_pem)
    IN  IF key.err # "ok"
        THEN Result(self, key.err, None)
        ELSE load_private_key(self, key.val)

get_public_key(self) ==
    IF self.private_key = None
    THEN Result(self, "AttributeError", None)
    ELSE Result(self, "ok", get_verifying_key(self.private_key))

(* Variant of load_received_public_key that takes the key's curve even
   when the coordinator has one. *)
load_received_public_key_overwrite(self, public_key) ==
    LET adopted == [self EXCEPT !.curve = public_key.curve]
    IN  IF adopted.curve # public_key.curve
        THEN Result(adopted, "InvalidCurveError", None)
        ELSE Result([adopted EXCEPT !.public_key = public_key], "ok", None)

(* Variant of load_received_public_key that stores the key without
   comparing its curve with the coordinator's. *)
load_received_public_key_unchecked(self, public_key) ==
    LET adopted == IF self.curve = None
                   THEN [self EXCEPT !.curve = public_key.curve]
                   ELSE self
    IN  Result([adopted EXCEPT !.public_key = public_key], "ok", None)

load_received_public_key(self, public_key) ==
    LET adopted == IF self.curve = None
                   THEN [self EXCEPT !.curve = public_key.curve]
                   ELSE self
    IN  IF adopted.curve # public_key.curve
        THEN Result(adopted, "InvalidCurveError", None)
        ELSE Result([adopted EXCEPT !.public_key = public_key], "ok", None)

load_received_public_key_bytes(self, public_key_str) ==
    LET key == VerifyingKey_from_string(public_key_str, self.curve)
    IN  IF key.err # "ok"
        THEN Result(self, key.err, None)
        ELSE load_received_public_key(self, key.val)

load_received_public_key_der(self, public_key_der) ==
    LET key == VerifyingKey_from_der(public_key_der)
    IN  IF key.err # "ok"
        THEN Result(self, key.err, None)
        ELSE load_received_public_key(self, key.val)

load_received_public_key_pem(self, public_key_pem) ==
    LET key == VerifyingKey_from_pem(public_key_pem)
    IN  IF key.err # "ok"
        THEN Result(self, key.err, None)
        ELSE load_received_public_key(self, key.val)

(* Variant of generate_sharedsecret that drops the received public key
   once the secret is computed. *)
generate_sharedsecret_consuming(self) ==
    LET r == get_shared_secret(self, self.public_key)
    IN  IF r.err # "ok"
        THEN r
        ELSE Result([self EXCEPT !.public_key = None], r.err, r.val)

generate_sharedsecret(self) == get_shared_secret(self, self.public_key)

(* Variant of generate_sharedsecret_bytes that reads the order of the
   private key's curve before it computes the secret. *)
generate_sharedsecret_bytes_order_first(self) ==
    IF self.private_key = None
    THEN Result(self, "AttributeError", None)
    ELSE LET secret == generate_sharedsecret(self)
         IN  IF secret.err # "ok"
             THEN secret
             ELSE LET string == number_to_string(
                                    secret.val.int,
                                    secret.self.private_key.curve.order)
                  IN  IF string.err # "ok"
                      THEN Result(secret.self, string.err, None)
                      ELSE Result(secret.self, "ok", ByteString(string.val))

(* Variant of generate_sharedsecret_bytes that sizes the string by the
   secret instead of the order. *)
generate_sharedsecret_bytes_natural(self) ==
    LET secret == generate_sharedsecret(self)
    IN  IF secret.err # "ok"
        THEN secret
        ELSE LET string == number_to_string(secret.val.int, secret.val.int)
             IN  IF string.err # "ok"
                 THEN Result(secret.self, string.err, None)
                 ELSE Result(secret.self, "ok", ByteString(string.val))

generate_sharedsecret_bytes(self) ==
    LET secret == generate_sharedsecret(self)
    IN  IF secret.err # "ok"
        THEN secret
        ELSE LET string == number_to_string(
                               secret.val.int,
                               secret.self.private_key.curve.order)
             IN  IF string.err # "ok"
                 THEN Result(secret.self, string.err, None)
                 ELSE Result(secret.self, "ok", ByteString(string.val))

(* Variant of ECDH.__init__ that assigns the keys to the slots itself. *)
ECDH_init_direct(curve, private_key, public_key) ==
    Result([curve |-> curve, private_key |-> private_key,
            public_key |-> public_key], "ok", None)

(* ECDH.__init__ *)
ECDH_init(curve, private_key, public_key) ==
    LET self == [curve |-> curve, private_key |-> None, public_key |-> None]
        r1 == IF private_key # None
              THEN load_private_key(self, private_key)
              ELSE Result(self, "ok", None)
        r2 == IF public_key # None
              THEN load_received_public_key(r1.self, public_key)
              ELSE Result(r1.self, "ok", None)
    IN  IF r1.err # "ok"
        THEN Result(r1.self, r1.err, None)
        ELSE Result(r2.self, r2.err, None)

(***************************************************************************)
(* The arguments the callers pass.  A SigningKey object may carry a secret *)
(* multiplier equal to the order of its curve (an object altered after its *)
(* construction); the codecs and SigningKey.generate only yield exponents  *)
(* in 1 .. order-1.                                                        *)
(***************************************************************************)
ValidScalars(c) == (1..MaxScalar) \cup {c.order - 1}

SigningKeys ==
    UNION {{SigningKey(c, d) : d \in ValidScalars(c) \cup {c.order}} :
           c \in Curves}

VerifyingKeys ==
    UNION {{get_verifying_key(SigningKey(c, d)) : d \in ValidScalars(c)} :
           c \in Curves}

PrivateStrings == {SigningKey_to_string(k) : k \in SigningKeys} \cup {<<>>}

PublicStrings ==
    {VerifyingKey_to_string(v) : v \in VerifyingKeys} \cup {<<0, 0>>}

PrivateDERs ==
    {SigningKey_to_der(k) : k \in SigningKeys}
        \cup {<<TagSequence, 1, 9, 1>>, <<>>}

PublicDERs ==
    {VerifyingKey_to_der(v) : v \in VerifyingKeys}
        \cup {<<TagSequence, IdEcPublicKey, 9, 0, 4, 5, 1>>, <<>>}

PrivatePEMs ==
    {SigningKey_to_pem(k) : k \in SigningKeys}
        \cup {topem(<<>>, PemPrivate), topem(<<>>, PemPublic)}

PublicPEMs ==
    {VerifyingKey_to_pem(v) : v \in VerifyingKeys}
        \cup {topem(<<>>, PemPublic), topem(<<>>, PemPrivate)}

(***************************************************************************)
(* State: ecdh[i] is coordinator i; ret[i] is the last call made on it:    *)
(* the method, its argument, the error raised and the value returned;      *)
(* late_set_curve[i] records that set_curve has been called on i while one *)
(* of its key slots was filled (a history of the calls, not a field).      *)
(***************************************************************************)
Call(op, arg, r) == [op |-> op, arg |-> arg, err |-> r.err, val |-> r.val]

Step(i, op, arg, r) ==
    /\ ecdh' = [ecdh EXCEPT ![i] = r.self]
    /\ ret' = [ret EXCEPT ![i] = Call(op, arg, r)]
    /\ late_set_curve' =
           [late_set_curve EXCEPT
               ![i] = @ \/ (/\ op = "set_curve"
                            /\ \/ ecdh[i].private_key # None
                               \/ ecdh[i].public_key # None)]

(* The coordinators ECDH(curve, private_key, public_key) constructs. *)
Constructed ==
    {ECDH_init(c, k, v) : c \in Curves \cup {None},
                          k \in SigningKeys \cup {None},
                          v \in VerifyingKeys \cup {None}}

Init ==
    /\ ecdh \in [{1} -> {r.self : r \in {q \in Constructed : q.err = "ok"}}]
    /\ ret = [i \in {1} |-> Call("__init__", None, Result(None, "ok", None))]
    /\ late_set_curve = [i \in {1} |-> FALSE]

SetCurve(i) ==
    \E key_curve \in Curves \cup {None} :
        Step(i, "set_curve", key_curve, set_curve(ecdh[i], key_curve))

GeneratePrivateKey(i) ==
    \E secexp \in IF ecdh[i].curve = None
                  THEN {0}
                  ELSE ValidScalars(ecdh[i].curve) :
        Step(i, "generate_private_key", Integer(secexp),
             generate_private_key(ecdh[i], secexp))

LoadPrivateKey(i) ==
    \E private_key \in SigningKeys :
        Step(i, "load_private_key", private_key,
             load_private_key(ecdh[i], private_key))

LoadPrivateKeyBytes(i) ==
    \E private_key \in PrivateStrings :
        Step(i, "load_private_key_bytes", ByteString(private_key),
             load_private_key_bytes(ecdh[i], private_key))

LoadPrivateKeyDer(i) ==
    \E private_key_der \in PrivateDERs :
        Step(i, "load_private_key_der", ByteString(private_key_der),
             load_private_key_der(ecdh[i], private_key_der))

LoadPrivateKeyPem(i) ==
    \E private_key_pem \in PrivatePEMs :
        Step(i, "load_private_key_pem", ByteString(private_key_pem),
             load_private_key_pem(ecdh[i], private_key_pem))

GetPublicKey(i) ==
    Step(i, "get_public_key", None, get_public_key(ecdh[i]))

LoadReceivedPublicKey(i) ==
    \E public_key \in VerifyingKeys :
        Step(i, "load_received_public_key", public_key,
             load_received_public_key(ecdh[i], public_key))

LoadReceivedPublicKeyBytes(i) ==
    \E public_key_str \in PublicStrings :
        Step(i, "load_received_public_key_bytes", ByteString(public_key_str),
             load_received_public_key_bytes(ecdh[i], public_key_str))

LoadReceivedPublicKeyDer(i) ==
    \E public_key_der \in PublicDERs :
        Step(i, "load_received_public_key_der", ByteString(public_key_der),
             load_received_public_key_der(ecdh[i], public_key_der))

LoadReceivedPublicKeyPem(i) ==
    \E public_key_pem \in PublicPEMs :
        Step(i, "load_received_public_key_pem", ByteString(public_key_pem),
             load_received_public_key_pem(ecdh[i], public_key_pem))

GenerateSharedsecret(i) ==
    Step(i, "generate_sharedsecret", None, generate_sharedsecret(ecdh[i]))

GenerateSharedsecretBytes(i) ==
    Step(i, "generate_sharedsecret_bytes", None,
         generate_sharedsecret_bytes(ecdh[i]))

Next ==
    \/ \E i \in DOMAIN ecdh : SetCurve(i)
    \/ \E i \in DOMAIN ecdh : GeneratePrivateKey(i)
    \/ \E i \in DOMAIN ecdh : LoadPrivateKey(i)
    \/ \E i \in DOMAIN ecdh : LoadPrivateKeyBytes(i)
    \/ \E i \in DOMAIN ecdh : LoadPrivateKeyDer(i)
    \/ \E i \in DOMAIN ecdh : LoadPrivateKeyPem(i)
    \/ \E i \in DOMAIN ecdh : GetPublicKey(i)
    \/ \E i \in DOMAIN ecdh : LoadReceivedPublicKey(i)
    \/ \E i \in DOMAIN ecdh : LoadReceivedPublicKeyBytes(i)
    \/ \E i \in DOMAIN ecdh : LoadReceivedPublicKeyDer(i)
    \/ \E i \in DOMAIN ecdh : LoadReceivedPublicKeyPem(i)
    \/ \E i \in DOMAIN ecdh : GenerateSharedsecret(i)
    \/ \E i \in DOMAIN ecdh : GenerateSharedsecretBytes(i)

Spec == Init /\ [][Next]_vars

(***************************************************************************)
(* Two parties of one exchange: each constructs its coordinator around its *)
(* own private key, receives the public key the other party publishes     *)
(* with get_public_key, and computes the shared secret.                    *)
(***************************************************************************)
InitPair ==
    /\ ecdh \in [{1, 2} -> {ECDH_init(None, k, None).self : k \in SigningKeys}]
    /\ ret = [i \in {1, 2} |->
                 Call("__init__", None, Result(None, "ok", None))]
    /\ late_set_curve = [i \in {1, 2} |-> FALSE]

ReceivePublicKey(i) ==
    LET public_key == get_public_key(ecdh[3 - i]).val
    IN  Step(i, "load_received_public_key", public_key,
             load_received_public_key(ecdh[i], public_key))

NextPair ==
    \/ \E i \in DOMAIN ecdh : ReceivePublicKey(i)
    \/ \E i \in DOMAIN ecdh : GenerateSharedsecret(i)
    \/ \E i \in DOMAIN ecdh : GenerateSharedsecretBytes(i)

SpecPair == InitPair /\ [][NextPair]_vars

(***************************************************************************)
(* Properties.                                                             *)
(***************************************************************************)
(* The curves a coordinator holds: its own and those of its loaded keys. *)
CurvesOf(self) ==
    ({self.curve} \ {None})
        \cup (IF self.private_key = None THEN {} ELSE {self.private_key.curve})
        \cup (IF self.public_key = None THEN {} ELSE {self.public_key.curve})

BothLoaded(self) == self.private_key # None /\ self.public_key # None

(* The step is a call of method op on coordinator i. *)
Called(i, op) ==
    /\ ret'[i].op = op
    /\ ret'[i] # ret[i] \/ ecdh'[i] # ecdh[i]

(* C1, as stated: in every reachable state, whatever the calls made
   (set_curve included), the curves that are set among the coordinator's
   curve, its private key's curve and its public key's curve are equal. *)
C1_CurvesAgreeAlways ==
    \A i \in DOMAIN ecdh : Cardinality(CurvesOf(ecdh[i])) <= 1

(* C1, amended: as long as set_curve has only been called while both key
   slots were empty, the curves that are set among the coordinator's curve,
   its private key's curve and its public key's curve are equal. *)
C1_CurvesAgreeUnlessLateSetCurve ==
    \A i \in DOMAIN ecdh :
        ~late_set_curve[i] => Cardinality(CurvesOf(ecdh[i])) <= 1

(* C1 witness: all three slots are filled, after loads through the codecs,
   with set_curve never called late. *)
C1_Witness ==
    \E i \in DOMAIN ecdh :
        /\ ~late_set_curve[i]
        /\ ecdh[i].curve # None
        /\ BothLoaded(ecdh[i])
        /\ ret[i].op = "load_received_public_key_der"
        /\ ret[i].err = "ok"

(* Coordinators 1 and 2 hold each other's derived public key, and neither
   the derived points nor their products with the private scalars are the
   point at infinity. *)
Exchanged ==
    /\ DOMAIN ecdh = {1, 2}
    /\ \A i \in {1, 2} :
        /\ BothLoaded(ecdh[i])
        /\ ecdh[i].public_key = get_verifying_key(ecdh[3 - i].private_key)
        /\ ecdh[i].public_key.pubkey.point # INFINITY
        /\ PointMul(ecdh[i].public_key.pubkey.point,
                    ecdh[i].private_key.privkey.secret_multiplier,
                    ecdh[i].public_key.curve) # INFINITY

(* C2: symmetry.  When coordinator 1 holds (private a, public derive(b))
   and coordinator 2 holds (private b, public derive(a)), with no product
   at infinity, generate_sharedsecret succeeds on both and returns the same
   integer. *)
C2_Symmetry ==
    (/\ Exchanged
     /\ \A i \in {1, 2} : ret[i].op = "generate_sharedsecret")
        => /\ ret[1].err = "ok"
           /\ ret[2].err = "ok"
           /\ ret[1].val = ret[2].val

(* C2 witness: both parties, holding different scalars on the two-byte
   curve, have computed the secret. *)
C2_Witness ==
    /\ Exchanged
    /\ \A i \in {1, 2} : ret[i].op = "generate_sharedsecret"
    /\ ret[1].err = "ok"
    /\ ret[1].val = ret[2].val
    /\ ecdh[1].curve = Curve283
    /\ ecdh[1].private_key.privkey.secret_multiplier = 2
    /\ ecdh[2].private_key.privkey.secret_multiplier = Curve283.order - 1

(* C3: curve-mismatch rejection.  On a coordinator that holds a curve,
   load_private_key of a key on another curve raises InvalidCurveError, and
   so does load_received_public_key of a public key on another curve,
   whatever calls came before. *)
C3_MismatchRejected ==
    [][\A i \in DOMAIN ecdh :
          (/\ Called(i, "load_private_key")
                \/ Called(i, "load_received_public_key")
           /\ ecdh[i].curve # None
           /\ ret'[i].arg.curve # ecdh[i].curve)
              => ret'[i].err = "InvalidCurveError"]_vars

(* C3 witness: a load_private_key was rejected on a coordinator that holds
   a public key and, after a late set_curve, a curve that is not the public
   key's. *)
C3_Witness ==
    \E i \in DOMAIN ecdh :
        /\ ret[i].op = "load_private_key"
        /\ ret[i].err = "InvalidCurveError"
        /\ ecdh[i].public_key # None
        /\ ecdh[i].public_key.curve # ecdh[i].curve
        /\ ret[i].arg.curve = ecdh[i].public_key.curve

(* The three curves of a coordinator with both keys loaded are pairwise
   equal. *)
PairwiseEqual(self) ==
    /\ self.private_key.curve = self.curve
    /\ self.public_key.curve = self.curve
    /\ self.private_key.curve = self.public_key.curve

(* C4: generate_sharedsecret returns a value only with both key slots
   filled and the three curves pairwise equal, and with both slots filled
   and two of the curves unequal it raises InvalidCurveError. *)
C4_CurvesCheckedAtComputation ==
    \A i \in DOMAIN ecdh :
        ret[i].op = "generate_sharedsecret"
            => /\ ret[i].err = "ok"
                    => BothLoaded(ecdh[i]) /\ PairwiseEqual(ecdh[i])
               /\ (BothLoaded(ecdh[i]) /\ ~PairwiseEqual(ecdh[i]))
                    => ret[i].err = "InvalidCurveError"

(* C4 witness: the computation was refused on a coordinator whose keys
   agree with each other but not with the curve set late by set_curve. *)
C4_Witness ==
    \E i \in DOMAIN ecdh :
        /\ ret[i].op = "generate_sharedsecret"
        /\ ret[i].err = "InvalidCurveError"
        /\ BothLoaded(ecdh[i])
        /\ ecdh[i].private_key.curve = ecdh[i].public_key.curve
        /\ ecdh[i].curve # None
        /\ ecdh[i].curve # ecdh[i].private_key.curve

(* C5: with the private key slot or the public key slot empty,
   generate_sharedsecret raises NoKeyError, whatever the curve slot holds:
   never InvalidCurveError, never InvalidSharedSecretError. *)
C5_MissingKeyFirst ==
    \A i \in DOMAIN ecdh :
        (ret[i].op = "generate_sharedsecret" /\ ~BothLoaded(ecdh[i]))
            => ret[i].err = "NoKeyError"

(* C5 witness: NoKeyError was raised on a coordinator whose only key is on
   another curve than the coordinator's. *)
C5_Witness ==
    \E i \in DOMAIN ecdh :
        /\ ret[i].op = "generate_sharedsecret"
        /\ ret[i].err = "NoKeyError"
        /\ ecdh[i].private_key # None
        /\ ecdh[i].public_key = None
        /\ ecdh[i].curve # ecdh[i].private_key.curve

(* The product of the public point and the private scalar of a coordinator
   with both keys loaded is the point at infinity. *)
ProductAtInfinity(self) ==
    PointMul(self.public_key.pubkey.point,
             self.private_key.privkey.secret_multiplier,
             self.public_key.curve) = INFINITY

(* C6: infinity rejection.  A shared-secret computation raises
   InvalidSharedSecretError exactly when both key slots are filled, the
   three curves agree and public point * private scalar is the point at
   infinity; it then returns nothing; no other method raises that error. *)
C6_InfinityRejected ==
    \A i \in DOMAIN ecdh :
        /\ ret[i].op \in {"generate_sharedsecret",
                          "generate_sharedsecret_bytes"}
              => /\ ret[i].err = "InvalidSharedSecretError"
                      <=> /\ BothLoaded(ecdh[i])
                          /\ PairwiseEqual(ecdh[i])
                          /\ ProductAtInfinity(ecdh[i])
                 /\ ret[i].err = "InvalidSharedSecretError"
                      => ret[i].val = None
        /\ ret[i].op \notin {"generate_sharedsecret",
                             "generate_sharedsecret_bytes"}
              => ret[i].err # "InvalidSharedSecretError"

(* C6 witness: generate_sharedsecret raised InvalidSharedSecretError for a
   private scalar equal to the order of the curve. *)
C6_Witness ==
    \E i \in DOMAIN ecdh :
        /\ ret[i].op = "generate_sharedsecret"
        /\ ret[i].err = "InvalidSharedSecretError"
        /\ ecdh[i].private_key.privkey.secret_multiplier
              = ecdh[i].curve.order

(* C7: load_received_public_key_bytes called while no curve is set raises
   NoCurveError, as load_private_key_bytes does, and leaves the public key
   slot as it was. *)
C7_PublicBytesNeedCurve ==
    [][\A i \in DOMAIN ecdh :
          (Called(i, "load_received_public_key_bytes")
              /\ ecdh[i].curve = None)
              => /\ ret'[i].err = "NoCurveError"
                 /\ ecdh'[i].public_key = ecdh[i].public_key]_vars

(* C8: generate_private_key and load_private_key_bytes called while no
   curve is set raise NoCurveError (not an error of the key generation or
   of the decoding) and leave the three slots as they were. *)
C8_PrivateNeedsCurve ==
    [][\A i \in DOMAIN ecdh :
          (/\ Called(i, "generate_private_key")
                \/ Called(i, "load_private_key_bytes")
           /\ ecdh[i].curve = None)
              => /\ ret'[i].err = "NoCurveError"
                 /\ ecdh'[i] = ecdh[i]]_vars

(* C8 witness: load_private_key_bytes of a string no curve could decode
   raised NoCurveError on a coordinator without a curve. *)
C8_Witness ==
    \E i \in DOMAIN ecdh :
        /\ ret[i].op = "load_private_key_bytes"
        /\ ret[i].arg = ByteString(<<>>)
        /\ ret[i].err = "NoCurveError"
        /\ ecdh[i].curve = None
        /\ ecdh[i].public_key # None

RECURSIVE BitLength(_)
BitLength(n) == IF n = 0 THEN 0 ELSE 1 + BitLength(n \div 2)

(* C9: fixed-width serialization.  When generate_sharedsecret_bytes
   succeeds, the string it returns has ceil(bit_length(order)/8) bytes,
   order being the order of the coordinator's curve, and read big-endian
   it is the integer generate_sharedsecret returns in the same state. *)
C9_FixedWidth ==
    \A i \in DOMAIN ecdh :
        (ret[i].op = "generate_sharedsecret_bytes" /\ ret[i].err = "ok")
            => /\ Len(ret[i].val.bytes)
                    = (BitLength(ecdh[i].curve.order) + 7) \div 8
               /\ generate_sharedsecret(ecdh[i]).err = "ok"
               /\ Integer(string_to_number(ret[i].val.bytes))
                    = generate_sharedsecret(ecdh[i]).val

(* C9 witness: on the curve whose order needs two bytes, a secret that fits
   in one byte was returned left-padded with a zero byte. *)
C9_Witness ==
    \E i \in DOMAIN ecdh :
        /\ ret[i].op = "generate_sharedsecret_bytes"
        /\ ret[i].err = "ok"
        /\ Len(ret[i].val.bytes) = 2
        /\ ret[i].val.bytes[1] = 0
        /\ ret[i].val.bytes[2] > 0

(* C10: generate_sharedsecret, generate_sharedsecret_bytes and
   get_public_key leave the three slots as they were, whether they succeed
   or fail, and a shared-secret computation that follows the same
   computation has the same outcome. *)
C10_ComputationsArePure ==
    [][\A i \in DOMAIN ecdh :
          /\ (\/ Called(i, "generate_sharedsecret")
              \/ Called(i, "generate_sharedsecret_bytes")
              \/ Called(i, "get_public_key"))
                => ecdh'[i] = ecdh[i]
          /\ (/\ ret[i].op \in {"generate_sharedsecret",
                                "generate_sharedsecret_bytes"}
              /\ ret'[i].op = ret[i].op)
                => ret'[i] = ret[i]]_vars

(* C10 witness: a shared secret was computed and returned. *)
C10_Witness ==
    \E i \in DOMAIN ecdh :
        /\ ret[i].op = "generate_sharedsecret"
        /\ ret[i].err = "ok"
        /\ ret[i].val.int > 0
        /\ BothLoaded(ecdh[i])

(* The private keys the key module yields: exponent in 1 .. order-1. *)
ValidSigningKeys ==
    {k \in SigningKeys :
        k.privkey.secret_multiplier \in 1..(k.curve.order - 1)}

(* The step loads private key k on coordinator i from one of its
   encodings: its fixed-width string with the curve of k set beforehand,
   its DER encoding or its PEM encoding. *)
LoadedEncoded(i, k) ==
    \/ /\ Called(i, "load_private_key_bytes")
       /\ ecdh[i].curve = k.curve
       /\ ret'[i].arg = ByteString(SigningKey_to_string(k))
    \/ /\ Called(i, "load_private_key_der")
       /\ ret'[i].arg = ByteString(SigningKey_to_der(k))
    \/ /\ Called(i, "load_private_key_pem")
       /\ ret'[i].arg = ByteString(SigningKey_to_pem(k))

(* C11: round trip via encodings.  Loading a private key from its
   fixed-width string (curve set beforehand), from its DER encoding or from
   its PEM encoding ends in the slots, and with the outcome, of
   load_private_key of the key object in the same coordinator, and the
   shared secret then computed against the loaded public key is the same. *)
C11_EncodingsRoundTrip ==
    [][\A i \in DOMAIN ecdh : \A k \in ValidSigningKeys :
          LoadedEncoded(i, k)
              => LET r == load_private_key(ecdh[i], k)
                 IN  /\ ecdh'[i] = r.self
                     /\ ret'[i].err = r.err
                     /\ ret'[i].val = r.val
                     /\ generate_sharedsecret(ecdh'[i])
                           = generate_sharedsecret(r.self)]_vars

(* C11 witness: a key was loaded from its PEM encoding into a coordinator
   without a curve that holds a public key, and the shared secret can be
   computed. *)
C11_Witness ==
    \E i \in DOMAIN ecdh : \E k \in ValidSigningKeys :
        /\ ret[i].op = "load_private_key_pem"
        /\ ret[i].arg = ByteString(SigningKey_to_pem(k))
        /\ ret[i].err = "ok"
        /\ ecdh[i].private_key = k
        /\ ecdh[i].curve = k.curve
        /\ ecdh[i].public_key # None
        /\ generate_sharedsecret(ecdh[i]).err = "ok"

(* C12: adopt or validate.  A successful load_private_key or
   load_received_public_key on a coordinator without a curve sets the
   coordinator's curve to the key's; a curve that is set is changed by no
   call but set_curve. *)
C12_AdoptOrValidate ==
    [][\A i \in DOMAIN ecdh :
          /\ (/\ Called(i, "load_private_key")
                    \/ Called(i, "load_received_public_key")
              /\ ecdh[i].curve = None
              /\ ret'[i].err = "ok")
                => ecdh'[i].curve = ret'[i].arg.curve
          /\ (ecdh[i].curve # None /\ ecdh'[i].curve # ecdh[i].curve)
                => ret'[i].op = "set_curve"]_vars

(* C12 witness: a public key was loaded into a coordinator that holds no
   private key, and the coordinator's curve is the public key's. *)
C12_Witness ==
    \E i \in DOMAIN ecdh :
        /\ ret[i].op = "load_received_public_key"
        /\ ret[i].err = "ok"
        /\ ecdh[i].private_key = None
        /\ ecdh[i].public_key = ret[i].arg
        /\ ecdh[i].curve = ret[i].arg.curve

(* C13: set_curve never fails, makes the curve slot hold its argument and
   leaves the private key and public key slots as they were, also when the
   loaded keys are on another curve. *)
C13_SetCurveUnconditional ==
    [][\A i \in DOMAIN ecdh :
          Called(i, "set_curve")
              => /\ ret'[i].err = "ok"
                 /\ ecdh'[i].curve = ret'[i].arg
                 /\ ecdh'[i].private_key = ecdh[i].private_key
                 /\ ecdh'[i].public_key = ecdh[i].public_key]_vars

(* C13 witness: set_curve has put a curve in a coordinator whose two keys
   are on another curve. *)
C13_Witness ==
    \E i \in DOMAIN ecdh :
        /\ ret[i].op = "set_curve"
        /\ ret[i].err = "ok"
        /\ ret[i].arg # None
        /\ ecdh[i].curve = ret[i].arg
        /\ BothLoaded(ecdh[i])
        /\ ecdh[i].private_key.curve # ecdh[i].curve
        /\ ecdh[i].public_key.curve # ecdh[i].curve

(* C14: slot replacement.  A successful load_private_key(k) leaves k in
   the private key slot whatever it held, leaves the public key slot as it
   was and returns the public key derived from k; a successful
   load_received_public_key(p) leaves p in the public key slot and the
   private key slot as it was; a shared secret is computed from the keys
   the slots hold. *)
C14_SlotReplacement ==
    [][\A i \in DOMAIN ecdh :
          /\ (Called(i, "load_private_key") /\ ret'[i].err = "ok")
                => /\ ecdh'[i].private_key = ret'[i].arg
                   /\ ecdh'[i].public_key = ecdh[i].public_key
                   /\ ret'[i].val = get_verifying_key(ret'[i].arg)
          /\ (Called(i, "load_received_public_key") /\ ret'[i].err = "ok")
                => /\ ecdh'[i].public_key = ret'[i].arg
                   /\ ecdh'[i].private_key = ecdh[i].private_key
          /\ (Called(i, "generate_sharedsecret") /\ ret'[i].err = "ok")
                => ret'[i].val
                     = Integer(PointMul(
                           ecdh[i].public_key.pubkey.point,
                           ecdh[i].private_key.privkey.secret_multiplier,
                           ecdh[i].public_key.curve)[1])]_vars

(* C14 witness: load_private_key has stored its argument beside a public
   key derived from another scalar and returned the derived public key. *)
C14_Witness ==
    \E i \in DOMAIN ecdh :
        /\ ret[i].op = "load_private_key"
        /\ ret[i].err = "ok"
        /\ ecdh[i].private_key = ret[i].arg
        /\ ret[i].val = get_verifying_key(ret[i].arg)
        /\ ecdh[i].public_key # None
        /\ ecdh[i].public_key # ret[i].val

(* The four errors of the class. *)
EcdhErrors ==
    {"NoCurveError", "NoKeyError", "InvalidCurveError",
     "InvalidSharedSecretError"}

(* C15: failure atomicity.  A call that raises NoCurveError, NoKeyError,
   InvalidCurveError or InvalidSharedSecretError leaves the curve, the
   private key and the public key slots as they were before the call. *)
C15_FailureAtomic ==
    [][\A i \in DOMAIN ecdh :
          ret'[i].err \in EcdhErrors => ecdh'[i] = ecdh[i]]_vars

(* C15 witness: a load_private_key was refused with InvalidCurveError and
   the private key stored before is still in its slot. *)
C15_Witness ==
    \E i \in DOMAIN ecdh :
        /\ ret[i].op = "load_private_key"
        /\ ret[i].err = "InvalidCurveError"
        /\ ecdh[i].private_key # None
        /\ ecdh[i].private_key # ret[i].arg
        /\ ecdh[i].curve = ecdh[i].private_key.curve

(* C16: as long as set_curve has only been called while both key slots
   were empty, the curve of each loaded key is the coordinator's curve, and
   generate_sharedsecret with both keys loaded raises neither
   InvalidCurveError nor NoKeyError. *)
C16_FreshUsageStaysSynchronized ==
    \A i \in DOMAIN ecdh :
        ~late_set_curve[i]
            => /\ ecdh[i].private_key # None
                    => ecdh[i].private_key.curve = ecdh[i].curve
               /\ ecdh[i].public_key # None
                    => ecdh[i].public_key.curve = ecdh[i].curve
               /\ (ret[i].op = "generate_sharedsecret"
                      /\ BothLoaded(ecdh[i]))
                    => ret[i].err \notin {"InvalidCurveError", "NoKeyError"}

(* C16 witness: with set_curve never called late, the secret was computed
   from a private key generated on the coordinator's curve. *)
C16_Witness ==
    \E i \in DOMAIN ecdh :
        /\ ~late_set_curve[i]
        /\ ret[i].op = "generate_sharedsecret"
        /\ ret[i].err = "ok"
        /\ BothLoaded(ecdh[i])
        /\ ecdh[i].private_key.curve = ecdh[i].curve
        /\ ecdh[i].public_key.curve = ecdh[i].curve

(* C17: generate_sharedsecret_bytes fails in exactly the states where
   generate_sharedsecret fails, and with the same error; with an empty
   private key slot that error is NoKeyError. *)
C17_BytesFailLikeInteger ==
    \A i \in DOMAIN ecdh :
        ret[i].op = "generate_sharedsecret_bytes"
            => LET secret == generate_sharedsecret(ecdh[i])
               IN  /\ ret[i].err # "ok" <=> secret.err # "ok"
                   /\ secret.err # "ok" => ret[i].err = secret.err
                   /\ ecdh[i].private_key = None
                        => ret[i].err = "NoKeyError"

(* C17 witness: generate_sharedsecret_bytes raised NoKeyError on a
   coordinator that holds a curve and a public key but no private key. *)
C17_Witness ==
    \E i \in DOMAIN ecdh :
        /\ ret[i].op = "generate_sharedsecret_bytes"
        /\ ret[i].err = "NoKeyError"
        /\ ecdh[i].private_key = None
        /\ ecdh[i].public_key # None
        /\ ecdh[i].curve # None

(***************************************************************************)
(* Construction against its replay: coordinator 2 is what                  *)
(* ECDH(curve, private_key, public_key) leaves (ret[2] holds the arguments *)
(* and the error of the constructor); coordinator 1 is constructed empty   *)
(* and is given set_curve(curve), then load_private_key(private_key) when  *)
(* a private key was supplied, then load_received_public_key(public_key)   *)
(* when a public key was supplied, stopping at the first call that raises. *)
(***************************************************************************)
InitConstruct ==
    \E c \in Curves \cup {None} :
      \E k \in SigningKeys \cup {None} :
        \E v \in VerifyingKeys \cup {None} :
            /\ ecdh = <<ECDH_init(None, None, None).self,
                        ECDH_init(c, k, v).self>>
            /\ ret = <<Call("__init__", None, Result(None, "ok", None)),
                       Call("__init__",
                            [curve |-> c, private_key |-> k,
                             public_key |-> v],
                            ECDH_init(c, k, v))>>
            /\ late_set_curve = <<FALSE, FALSE>>

ReplaySetCurve ==
    /\ ret[1].op = "__init__"
    /\ Step(1, "set_curve", ret[2].arg.curve,
            set_curve(ecdh[1], ret[2].arg.curve))

ReplayLoadPrivateKey ==
    /\ ret[1].op = "set_curve"
    /\ ret[2].arg.private_key # None
    /\ Step(1, "load_private_key", ret[2].arg.private_key,
            load_private_key(ecdh[1], ret[2].arg.private_key))

ReplayLoadReceivedPublicKey ==
    /\ ret[1].err = "ok"
    /\ \/ ret[1].op = "load_private_key"
       \/ ret[1].op = "set_curve" /\ ret[2].arg.private_key = None
    /\ ret[2].arg.public_key # None
    /\ Step(1, "load_received_public_key", ret[2].arg.public_key,
            load_received_public_key(ecdh[1], ret[2].arg.public_key))

NextConstruct ==
    \/ ReplaySetCurve
    \/ ReplayLoadPrivateKey
    \/ ReplayLoadReceivedPublicKey

SpecConstruct == InitConstruct /\ [][NextConstruct]_vars

(* The replay on coordinator 1 has made its last call. *)
Replayed ==
    /\ DOMAIN ecdh = {1, 2}
    /\ ret[2].op = "__init__"
    /\ ret[2].arg # None
    /\ \/ ret[1].op # "__init__" /\ ret[1].err # "ok"
       \/ ret[1].op = "load_received_public_key"
       \/ ret[1].op = "load_private_key" /\ ret[2].arg.public_key = None
       \/ /\ ret[1].op = "set_curve"
          /\ ret[2].arg.private_key = None
          /\ ret[2].arg.public_key = None

(* C18: pre-seeded construction.  ECDH(curve, private_key, public_key)
   raises exactly when the replay set_curve, load_private_key,
   load_received_public_key on an empty coordinator raises, with the same
   error, and otherwise leaves the slots the replay leaves; it raises
   InvalidCurveError whenever two of the supplied curve, private key's
   curve and public key's curve differ. *)
C18_ConstructionIsReplay ==
    /\ Replayed
          => /\ ret[2].err = ret[1].err
             /\ ret[2].err = "ok" => ecdh[2] = ecdh[1]
    /\ (/\ DOMAIN ecdh = {1, 2}
        /\ ret[2].arg # None
        /\ Cardinality(CurvesOf(ret[2].arg)) > 1)
          => ret[2].err = "InvalidCurveError"

(* C18 witness: a construction with a curve, a private key and a public
   key succeeded and its replay has made its three calls. *)
C18_Witness ==
    /\ Replayed
    /\ ret[1].op = "load_received_public_key"
    /\ ret[1].err = "ok"
    /\ ret[2].err = "ok"
    /\ ret[2].arg.curve # None
    /\ ret[2].arg.private_key # None
    /\ ecdh[2] = ecdh[1]
    /\ BothLoaded(ecdh[2])

====
